---------------------------- MODULE Spec2Model ----------------------------
(***************************************************************************)
(* Outbound HTTP proxy with SSRF protection (Backend/routes/proxy_routes.py *)
(* and Backend/utils/security.py): the /proxy-api handler as a state        *)
(* machine over one inbound request at a time, with the validators as pure  *)
(* operators over strings and JSON values.                                  *)
(***************************************************************************)
EXTENDS Integers, Sequences, FiniteSets, TLC

(***************************************************************************)
(* Strings.  TLC evaluates Len, SubSeq and \o on strings; a character is a *)
(* string of length 1.                                                      *)
(***************************************************************************)
CharAt(s, i) == SubSeq(s, i, i)

StartsWith(s, p) == Len(s) >= Len(p) /\ SubSeq(s, 1, Len(p)) = p

\* Python's `p in s`
Contains(s, p) == \E i \in 1..(Len(s) - Len(p) + 1) : SubSeq(s, i, i + Len(p) - 1) = p

\* Smallest index >= from whose character is in cs, Len(s) + 1 when there is none
IndexOfAny(s, cs, from) ==
    IF \E i \in from..Len(s) : CharAt(s, i) \in cs
    THEN CHOOSE i \in from..Len(s) :
            /\ CharAt(s, i) \in cs
            /\ \A j \in from..(i - 1) : CharAt(s, j) \notin cs
    ELSE Len(s) + 1

\* Largest index whose character is c, 0 when there is none
LastIndexOf(s, c) ==
    IF \E i \in 1..Len(s) : CharAt(s, i) = c
    THEN CHOOSE i \in 1..Len(s) :
            /\ CharAt(s, i) = c
            /\ \A j \in (i + 1)..Len(s) : CharAt(s, j) # c
    ELSE 0

CountChar(s, c) == Cardinality({i \in 1..Len(s) : CharAt(s, i) = c})

UpperChars == "ABCDEFGHIJKLMNOPQRSTUVWXYZ"
LowerChars == "abcdefghijklmnopqrstuvwxyz"
Digits == {"0", "1", "2", "3", "4", "5", "6", "7", "8", "9"}

LowerChar(c) ==
    IF \E i \in 1..Len(UpperChars) : CharAt(UpperChars, i) = c
    THEN CharAt(LowerChars, CHOOSE i \in 1..Len(UpperChars) : CharAt(UpperChars, i) = c)
    ELSE c

UpperChar(c) ==
    IF \E i \in 1..Len(LowerChars) : CharAt(LowerChars, i) = c
    THEN CharAt(UpperChars, CHOOSE i \in 1..Len(LowerChars) : CharAt(LowerChars, i) = c)
    ELSE c

RECURSIVE Lower(_)
\* str.lower()
Lower(s) == IF s = "" THEN "" ELSE LowerChar(CharAt(s, 1)) \o Lower(SubSeq(s, 2, Len(s)))

RECURSIVE Upper(_)
\* str.upper()
Upper(s) == IF s = "" THEN "" ELSE UpperChar(CharAt(s, 1)) \o Upper(SubSeq(s, 2, Len(s)))

\* str.isdigit() on an ASCII string
IsDigit(s) == Len(s) > 0 /\ \A i \in 1..Len(s) : CharAt(s, i) \in Digits

\* s.replace(c, '') for a single character c
RECURSIVE RemoveChar(_, _)
RemoveChar(s, c) ==
    IF s = "" THEN ""
    ELSE (IF CharAt(s, 1) = c THEN "" ELSE CharAt(s, 1)) \o RemoveChar(SubSeq(s, 2, Len(s)), c)

(***************************************************************************)
(* urllib.parse.urlparse(url).hostname for a url that starts with http://  *)
(* or https://: the netloc runs from after "//" to the first of / ? #; the *)
(* userinfo up to the last @ is dropped; a bracketed host is what is        *)
(* between [ and ], any other host ends at the first colon.  urlparse       *)
(* raises ValueError when only one of [ and ] is in the netloc.             *)
(***************************************************************************)
Netloc(url) ==
    LET start == IF StartsWith(url, "https://") THEN 9 ELSE 8
        stop  == IndexOfAny(url, {"/", "?", "#"}, start)
    IN  SubSeq(url, start, stop - 1)

UrlparseRaises(url) ==
    LET n == Netloc(url)
    IN  Contains(n, "[") # Contains(n, "]")

Hostname(url) ==
    LET n        == Netloc(url)
        at       == LastIndexOf(n, "@")
        hostinfo == SubSeq(n, at + 1, Len(n))
        open     == IndexOfAny(hostinfo, {"["}, 1)
        brack    == SubSeq(hostinfo, open + 1, Len(hostinfo))
        host     == IF open <= Len(hostinfo)
                    THEN SubSeq(brack, 1, IndexOfAny(brack, {"]"}, 1) - 1)
                    ELSE SubSeq(hostinfo, 1, IndexOfAny(hostinfo, {":"}, 1) - 1)
    IN  Lower(host)

(***************************************************************************)
(* SSRFProtection (utils/security.py)                                       *)
(***************************************************************************)
DANGEROUS_HOSTS ==
    {"localhost", "127.0.0.1", "0.0.0.0", "[::1]", "::1", "169.254.169.254",
     "metadata.google.internal", "metadata", "metadata.azure.com"}

Matches172_to_30(h) ==
    /\ StartsWith(h, "172.")
    /\ Len(h) >= 7
    /\ CharAt(h, 7) = "."
    /\ \/ CharAt(h, 5) = "1" /\ CharAt(h, 6) \in {"6", "7", "8", "9"}
       \/ CharAt(h, 5) = "2" /\ CharAt(h, 6) \in Digits
       \/ CharAt(h, 5) = "3" /\ CharAt(h, 6) = "0"

\* re.match(r'^172\.(1[6-9]|2[0-9]|3[01])\.', h)
Matches172(h) ==
    /\ StartsWith(h, "172.")
    /\ Len(h) >= 7
    /\ CharAt(h, 7) = "."
    /\ \/ CharAt(h, 5) = "1" /\ CharAt(h, 6) \in {"6", "7", "8", "9"}
       \/ CharAt(h, 5) = "2" /\ CharAt(h, 6) \in Digits
       \/ CharAt(h, 5) = "3" /\ CharAt(h, 6) \in {"0", "1"}

\* any(re.match(pattern, hostname) for pattern in PRIVATE_IP_PATTERNS)
PRIVATE_IP_PATTERNS(h) ==
    \/ StartsWith(h, "10.")
    \/ Matches172(h)
    \/ StartsWith(h, "192.168.")
    \/ StartsWith(h, "fc00:")
    \/ StartsWith(h, "fe80:")
    \/ h = "::1"
    \/ StartsWith(h, "0.0.0.0")
    \/ StartsWith(h, "127.")

suspicious_patterns(h) ==
    \/ StartsWith(h, "0x7f")
    \/ StartsWith(h, "0177")
    \/ StartsWith(h, "2130706433")

metadata_keywords == {"metadata", "meta-data", "instance-data"}

is_safe_url_without_hostname_test(url) ==
    IF url = "" THEN FALSE
    ELSE IF ~(StartsWith(url, "http://") \/ StartsWith(url, "https://")) THEN FALSE
    ELSE IF UrlparseRaises(url) THEN FALSE
    ELSE LET hostname == Hostname(url)
         IN  /\ hostname \notin DANGEROUS_HOSTS
             /\ ~Contains(hostname, "localhost")
             /\ \A k \in metadata_keywords : ~Contains(hostname, k)
             /\ ~PRIVATE_IP_PATTERNS(hostname)
             /\ ~suspicious_patterns(hostname)
             /\ ~(CountChar(hostname, ".") > 3 /\ IsDigit(RemoveChar(hostname, ".")))

\* is_safe_url(url)[0] for a string url
is_safe_url(url) ==
    IF url = "" THEN FALSE
    ELSE IF ~(StartsWith(url, "http://") \/ StartsWith(url, "https://")) THEN FALSE
    ELSE IF UrlparseRaises(url) THEN FALSE
    ELSE LET hostname == Hostname(url)
         IN  /\ hostname # ""
             /\ hostname \notin DANGEROUS_HOSTS
             /\ ~Contains(hostname, "localhost")
             /\ \A k \in metadata_keywords : ~Contains(hostname, k)
             /\ ~PRIVATE_IP_PATTERNS(hostname)
             /\ ~suspicious_patterns(hostname)
             /\ ~(CountChar(hostname, ".") > 3 /\ IsDigit(RemoveChar(hostname, ".")))

(***************************************************************************)
(* JSON values as the handler sees them after request.get_json(): t is the *)
(* Python type, s is str(value), n is len(value) for a container or string *)
(* and the number itself for a number, items are a dict's entries in       *)
(* insertion order.                                                         *)
(***************************************************************************)
Null      == [t |-> "NoneType", s |-> "None", n |-> 0, items |-> <<>>]
Str(x)    == [t |-> "str", s |-> x, n |-> Len(x), items |-> <<>>]
Num(k, r) == [t |-> "int", s |-> r, n |-> k, items |-> <<>>]
List(k)   == [t |-> "list", s |-> "[...]", n |-> k, items |-> <<>>]
Dict(kvs) == [t |-> "dict", s |-> "{...}", n |-> Len(kvs), items |-> kvs]

\* bool(value)
Truthy(v) == IF v.t = "NoneType" THEN FALSE ELSE v.n # 0

\* isinstance(value, dict)
IsDict(v) == v.t = "dict"

(***************************************************************************)
(* A request body: t is its Python type, size the UTF-8 byte length of the *)
(* text validate_request_size measures (the string itself, json.dumps of a *)
(* dict, str() of anything else), n its len(), json whether json.loads     *)
(* accepts it when it is a string.                                          *)
(***************************************************************************)
NoBody == [t |-> "NoneType", size |-> 0, n |-> 0, json |-> FALSE]
Body(t, size, n, json) == [t |-> t, size |-> size, n |-> n, json |-> json]

BodyTruthy(b) == b.t # "NoneType" /\ b.n # 0

max_size_decimal == 10 * 1000 * 1000

\* validate_request_size's default max_size
max_size == 10 * 1024 * 1024

\* validate_request_size(body, max_size)[0]
validate_request_size(body, limit) ==
    IF body.t = "NoneType" THEN TRUE ELSE ~(body.size > limit)

MaxHeaderName == 1000
MaxHeaderValue == 10000

HeaderEntryOk_limits_excluded(k, v) ==
    /\ ~Contains(k, "\n") /\ ~Contains(k, "\r")
    /\ ~Contains(v.s, "\n") /\ ~Contains(v.s, "\r")
    /\ ~(Len(k) >= MaxHeaderName \/ Len(v.s) >= MaxHeaderValue)

HeaderEntryOk(k, v) ==
    /\ ~Contains(k, "\n") /\ ~Contains(k, "\r")
    /\ ~Contains(v.s, "\n") /\ ~Contains(v.s, "\r")
    /\ ~(Len(k) > MaxHeaderName \/ Len(v.s) > MaxHeaderValue)

\* validate_headers(headers)[0]
validate_headers(headers) ==
    IF ~IsDict(headers) THEN FALSE
    ELSE \A i \in 1..Len(headers.items) :
            HeaderEntryOk(headers.items[i][1], headers.items[i][2])


(***************************************************************************)
(* Credential injection for the known upstream (proxy_api, "Auto-inject    *)
(* API keys for known services")                                            *)
(***************************************************************************)
placeholders ==
    {"YOUR_API_KEY", "YOUR_API_KEY_HERE", "your-api-key-here", "${apiKey}",
     "apiKey", "your_api_key", "YOUR-API-KEY", "<your-api-key>"}

MinKeyLen == 20
LongKeyLen == 50

\* 'api.anthropic.com' in url
is_known_upstream(url) == Contains(url, "api.anthropic.com")

\* Index of the first entry whose key.lower() equals name, 0 when there is none
\* (for key in headers.keys(): if key.lower() == name: ...; break)
FindHeader(items, name) ==
    IF \E i \in 1..Len(items) : Lower(items[i][1]) = name
    THEN CHOOSE i \in 1..Len(items) :
            /\ Lower(items[i][1]) = name
            /\ \A j \in 1..(i - 1) : Lower(items[j][1]) # name
    ELSE 0

\* Evaluating is_valid_key raises: len() of a number, .startswith of a
\* container that got past the length and placeholder tests
is_valid_key_raises(v) ==
    /\ Truthy(v)
    /\ \/ v.t \in {"int", "bool"}
       \/ v.t \in {"list", "dict"} /\ v.n >= MinKeyLen

\* is_valid_key, for a value on which it does not raise
is_valid_key(v) ==
    /\ Truthy(v)
    /\ v.n >= MinKeyLen
    /\ ~(v.t = "str" /\ v.s \in placeholders)
    /\ v.t = "str"
    /\ (StartsWith(v.s, "sk-") \/ v.n > LongKeyLen)

\* headers[key] = value on a dict: in place when the key exists, appended otherwise
SetItem(items, key, value) ==
    IF \E i \in 1..Len(items) : items[i][1] = key
    THEN [i \in 1..Len(items) |-> IF items[i][1] = key THEN <<key, value>> ELSE items[i]]
    ELSE Append(items, <<key, value>>)

\* headers[key] for a key case-insensitively equal to name, Null when absent
GetHeader(items, name) ==
    IF FindHeader(items, name) = 0 THEN Null ELSE items[FindHeader(items, name)][2]

InjectKey_always_server_key(items, anthropic_key) ==
    LET i == FindHeader(items, "x-api-key")
    IN  IF i = 0 THEN SetItem(items, "x-api-key", Str(anthropic_key))
        ELSE SetItem(items, items[i][1], Str(anthropic_key))

InjectKey_keeps_caller_value(items, anthropic_key) ==
    LET i == FindHeader(items, "x-api-key")
    IN  IF i = 0 THEN SetItem(items, "x-api-key", Str(anthropic_key))
        ELSE items

InjectKey_lowercase_name(items, anthropic_key) ==
    LET i == FindHeader(items, "x-api-key")
    IN  IF i = 0 THEN SetItem(items, "x-api-key", Str(anthropic_key))
        ELSE IF is_valid_key(items[i][2]) THEN items
        ELSE SetItem(items, "x-api-key", Str(anthropic_key))

\* The x-api-key part of the injection, for a configured server key
InjectKey(items, anthropic_key) ==
    LET i == FindHeader(items, "x-api-key")
    IN  IF i = 0 THEN SetItem(items, "x-api-key", Str(anthropic_key))
        ELSE IF is_valid_key(items[i][2]) THEN items
        ELSE SetItem(items, items[i][1], Str(anthropic_key))

InjectVersion_unconditional(items) ==
    SetItem(items, "anthropic-version", Str("2023-06-01"))

\* "Ensure required Anthropic headers"
InjectVersion(items) ==
    IF FindHeader(items, "anthropic-version") = 0
    THEN SetItem(items, "anthropic-version", Str("2023-06-01"))
    ELSE items


(***************************************************************************)
(* The inputs: the environment the server was started in, the JSON bodies  *)
(* POSTed to /proxy-api, and what the upstream does with a forwarded call. *)
(* A request is a JSON object whose url and method are strings and whose   *)
(* headers hold at most one name equal to x-api-key ignoring case; headers *)
(* and body are any JSON value.  The rate limiter in front of the handler  *)
(* and the OPTIONS preflight are not part of the model.                    *)
(***************************************************************************)
ServerKey == "sk-ant-REDACTED"

\* Development mode is switched on by either variable; the case of both adds
\* nothing to the cases of one
Envs ==
    {e \in [FLASK_ENV : {"production", "development"},
            FLASK_DEBUG : {"0", "1"},
            ANTHROPIC_API_KEY : {"", ServerKey}] :
        ~(e.FLASK_ENV = "development" /\ e.FLASK_DEBUG = "1")}

Urls ==
    {"",
     "https://httpbin.org/get",
     "https://api.anthropic.com/v1/messages",
     "http://169.254.169.254/latest/meta-data/",
     "http://localhost:8080/api",
     "http://10.1.2.3/api.anthropic.com",
     "ftp://example.com",
     "https://evil.example/api.anthropic.com",
     "http://169.254.169.254/?next=localhost"}

Methods == {"GET", "post", "Head"}

LongUserKey == "A1b2C3d4E5f6G7h8I9j0A1b2C3d4E5f6G7h8I9j0A1b2C3d4E5f6G7h8I9j0abcd"

HeaderValues ==
    {Dict(<<>>),
     Dict(<< <<"X-Foo", Str("v")>> >>),
     Dict(<< <<"X-Foo\r\nX-Bar", Str("v")>> >>),
     Dict(<< <<"Content-Type", Str("application/json")>>,
             <<"x-api-key", Str("YOUR_API_KEY")>>,
             <<"anthropic-version", Str("2023-06-01")>> >>),
     Dict(<< <<"X-API-Key", Str(LongUserKey)>> >>),
     Dict(<< <<"x-api-key", Str("sk-ant-user-key-00001")>> >>),
     Dict(<< <<"x-api-key", Str("sk-short")>> >>),
     Dict(<< <<"X-Api-Key", Str("abcdefghijklmnopqrstuvwxy")>> >>),
     Dict(<< <<"x-api-key", Str("")>> >>),
     Dict(<< <<"x-api-key", Num(12345, "12345")>> >>),
     Dict(<< <<"X-API-KEY", Str("YOUR_API_KEY")>>,
             <<"Anthropic-Version", Str("2023-01-01")>> >>),
     Str("abc"),
     List(0)}

Bodies ==
    {NoBody,
     Body("str", 9, 9, TRUE),
     Body("str", max_size, max_size, FALSE),
     Body("dict", max_size + 1, 1, FALSE),
     Body("str", 0, 0, FALSE),
     Body("dict", 2, 0, FALSE),
     Body("list", 6, 2, FALSE)}

Requests == [url : Urls, method : Methods, headers : HeaderValues, body : Bodies]

NoRequest == [url |-> "", method |-> "", headers |-> Null, body |-> NoBody]

\* What requests.request does: a Response with a status code and a body text,
\* or a RequestException.  via holds the Location urls of the redirects the
\* upstream answered with before that, which requests follows on its own
\* (allow_redirects is left at its default, True).
Replies ==
    {[kind |-> "Response", status_code |-> 200, text |-> "{}", via |-> <<>>],
     [kind |-> "Response", status_code |-> 404, text |-> "Not Found", via |-> <<>>],
     [kind |-> "Response", status_code |-> 500, text |-> "null", via |-> <<>>],
     [kind |-> "Response", status_code |-> 200, text |-> "ami-id",
      via |-> <<"http://169.254.169.254/latest/meta-data/">>],
     [kind |-> "ConnectionError", status_code |-> 0, text |-> "", via |-> <<>>],
     [kind |-> "Timeout", status_code |-> 0, text |-> "", via |-> <<>>]}

NoReply == [kind |-> "", status_code |-> 0, text |-> "", via |-> <<>>]

\* status is the HTTP status of the handler's response; upstream_status, data
\* and url are the 'status', 'data' and 'url' fields of the result it carries
NoResponse ==
    [status |-> 0, error |-> "", data |-> Null, upstream_status |-> 0, url |-> ""]

VARIABLES
    env,        \* os.environ, fixed at start-up
    pc,         \* where the handler is in the current request
    data,       \* request.get_json() of the current request
    headers,    \* the handler's headers object
    outbound,   \* the requests.request calls made for the current request
    reply,      \* what the upstream did with the forwarded call
    response,   \* what the handler returned
    responses,  \* how many responses the current request got
    visited,    \* the stages the current request went through
    wire,       \* the urls requests asked for on behalf of the current request
    other,      \* the locals of the request of a second thread, while it waits
    call,       \* the last direct call of a validator: its name and arguments
    verdict,    \* what that call returned ([0] of the tuple)
    RATE_LIMITS,  \* check_rate_limit's table: per key, count and reset
    clock,      \* int(time.time())
    calls,      \* the calls of check_rate_limit in progress, one per thread
    granted     \* per key, the calls that returned allowed since its last reset

\* The locals of the handler in the running thread
frame == <<pc, data, headers, outbound, reply, response, responses, visited, wire>>

limiterVars == <<RATE_LIMITS, clock, calls, granted>>

\* What no step of the running handler touches
elsewhere == <<other, call, verdict, limiterVars>>

vars == <<env, frame, elsewhere>>

NoCall == [fn |-> "", arg |-> Null, limit |-> 0]

\* The locals of a handler that has no request
IdleFrame ==
    [pc |-> "Idle", data |-> NoRequest, headers |-> Null, outbound |-> <<>>,
     reply |-> NoReply, response |-> NoResponse, responses |-> 0, visited |-> <<>>,
     wire |-> <<>>]

Keys == {"key-a", "key-b"}

Threads == {1, 2}

\* A thread that is not inside check_rate_limit
NotCalling == [pc |-> "out", api_key |-> "", now |-> 0, count |-> 0, made |-> 0]

Init ==
    /\ env \in Envs
    /\ pc = "Idle"
    /\ data = NoRequest
    /\ headers = Null
    /\ outbound = <<>>
    /\ reply = NoReply
    /\ response = NoResponse
    /\ responses = 0
    /\ visited = <<>>
    /\ wire = <<>>
    /\ other = IdleFrame
    /\ call = NoCall
    /\ verdict = FALSE
    /\ RATE_LIMITS = [k \in Keys |-> [count |-> 0, reset |-> 0]]
    /\ clock = 1
    /\ calls = [t \in Threads |-> NotCalling]
    /\ granted = [k \in Keys |-> 0]

\* return jsonify({'error': ...}), status
Return(status, error) ==
    /\ response' = [status |-> status, error |-> error, data |-> Null,
                    upstream_status |-> 0, url |-> ""]
    /\ responses' = responses + 1
    /\ pc' = "Responded"
    /\ visited' = Append(visited, "Responded")

\* An exception that leaves proxy_api: app.py's handler for Exception answers
Raise == Return(500, "internal server error")

Goto(stage) ==
    /\ pc' = stage
    /\ visited' = Append(visited, stage)
    /\ UNCHANGED <<response, responses>>

\* The debug print of list(headers.keys()) raises for a truthy value without keys()
HeadersPrintRaises(h) == Truthy(h) /\ ~IsDict(h)

\* proxy_api up to the SSRF check: read the JSON, require url, print the fields
Receive(d) ==
    /\ pc = "Idle"
    /\ data' = d
    /\ headers' = d.headers
    /\ IF d.url = "" THEN Return(400, "URL is required")
       ELSE IF HeadersPrintRaises(d.headers) THEN Raise
       ELSE Goto("Received")
    /\ UNCHANGED <<elsewhere, env, outbound, reply, wire>>

is_dev_mode(e) == e.FLASK_ENV = "development" \/ e.FLASK_DEBUG = "1"

is_localhost_url(url) ==
    \E host \in {"localhost", "127.0.0.1", "0.0.0.0"} : Contains(Lower(url), host)

\* if not url_safe: unless is_localhost_url and is_dev_mode: return 403
url_blocked(url, e) == ~is_safe_url(url) /\ ~(is_localhost_url(url) /\ is_dev_mode(e))

\* 1. SSRF Protection
ValidateURL ==
    /\ pc = "Received"
    /\ IF url_blocked(data.url, env)
       THEN Return(403, "URL blocked for security reasons")
       ELSE Goto("URLValidated")
    /\ UNCHANGED <<elsewhere, env, data, headers, outbound, reply, wire>>

\* 2. Validate request body size
ValidateSize ==
    /\ pc = "URLValidated"
    /\ IF ~validate_request_size(data.body, max_size)
       THEN Return(413, "Request body too large")
       ELSE Goto("SizeValidated")
    /\ UNCHANGED <<elsewhere, env, data, headers, outbound, reply, wire>>

\* 3. Validate headers
ValidateHeaders ==
    /\ pc = "SizeValidated"
    /\ IF ~validate_headers(headers)
       THEN Return(400, "Invalid request headers")
       ELSE Goto("HeadersValidated")
    /\ UNCHANGED <<elsewhere, env, data, headers, outbound, reply, wire>>

key_configured_unchecked(anthropic_key) == TRUE

\* if anthropic_key:
key_configured(anthropic_key) == anthropic_key # ""

MissingKeyError == "Anthropic API key not configured on server"

\* Auto-inject API keys for known services
InjectCredentials ==
    /\ pc = "HeadersValidated"
    /\ IF ~is_known_upstream(data.url)
       THEN Goto("CredentialsInjected") /\ UNCHANGED headers
       ELSE IF ~key_configured(env.ANTHROPIC_API_KEY)
       THEN Return(500, MissingKeyError) /\ UNCHANGED headers
       ELSE IF is_valid_key_raises(GetHeader(headers.items, "x-api-key"))
       THEN Raise /\ UNCHANGED headers
       ELSE /\ headers' = Dict(InjectVersion(InjectKey(headers.items, env.ANTHROPIC_API_KEY)))
            /\ Goto("CredentialsInjected")
    /\ UNCHANGED <<elsewhere, env, data, outbound, reply, wire>>

Payload_case_sensitive(method, body) ==
    IF BodyTruthy(body) /\ method \notin {"GET", "HEAD"}
    THEN IF body.t = "str" THEN (IF body.json THEN "json" ELSE "data")
         ELSE IF body.t = "dict" THEN "json"
         ELSE "data"
    ELSE "none"

\* The json= or data= argument of requests.request
Payload(method, body) ==
    IF BodyTruthy(body) /\ Upper(method) \notin {"GET", "HEAD"}
    THEN IF body.t = "str" THEN (IF body.json THEN "json" ELSE "data")
         ELSE IF body.t = "dict" THEN "json"
         ELSE "data"
    ELSE "none"

timeout == 30

requests_request_twice(request) == <<request, request>>

\* The calls that go out for response = requests.request(...): the handler
\* makes the call once, in no loop and with no retrying adapter
requests_request(request) == <<request>>

\* requests.request(method.upper(), url, **request_kwargs) and what comes of it
Forward(r) ==
    /\ pc = "CredentialsInjected"
    /\ outbound' = outbound \o
                      requests_request(
                          [method |-> Upper(data.method), url |-> data.url,
                           headers |-> headers, payload |-> Payload(data.method, data.body),
                           timeout |-> timeout])
    /\ reply' = r
    /\ Goto("Forwarded")
    /\ wire' = <<data.url>> \o r.via
    /\ UNCHANGED <<elsewhere, env, data, headers>>

\* except requests.exceptions.RequestException: ... 500
forward_failure_status(kind) == 500

\* json.loads accepts the text (of the JSON texts, the literals, the
\* non-negative integers, the strings without escapes and the empty containers)
json_parses(text) ==
    \/ text \in {"null", "true", "false", "{}", "[]"}
    \/ IsDigit(text) /\ (Len(text) = 1 \/ CharAt(text, 1) # "0")
    \/ /\ Len(text) >= 2
       /\ CharAt(text, 1) = "\"" /\ CharAt(text, Len(text)) = "\""
       /\ ~Contains(SubSeq(text, 2, Len(text) - 1), "\"")
       /\ ~Contains(SubSeq(text, 2, Len(text) - 1), "\\")

RECURSIVE ToInt(_)
ToInt(digits) ==
    IF digits = "" THEN 0
    ELSE 10 * ToInt(SubSeq(digits, 1, Len(digits) - 1))
         + (CHOOSE d \in 0..9 : CharAt("0123456789", d + 1) = CharAt(digits, Len(digits)))

\* response.json() of a text that json_parses
json_loads(text) ==
    IF text = "null" THEN Null
    ELSE IF text = "true" THEN [t |-> "bool", s |-> "True", n |-> 1, items |-> <<>>]
    ELSE IF text = "false" THEN [t |-> "bool", s |-> "False", n |-> 0, items |-> <<>>]
    ELSE IF text = "{}" THEN Dict(<<>>)
    ELSE IF text = "[]" THEN List(0)
    ELSE IF IsDigit(text) THEN Num(ToInt(text), text)
    ELSE Str(SubSeq(text, 2, Len(text) - 1))

response_data_always_text(text) == Str(text)

\* try: response_data = response.json()  except: response_data = response.text
response_data(text) ==
    IF json_parses(text) THEN json_loads(text) ELSE Str(text)

\* The response built from the upstream's answer, or from the exception
Respond ==
    /\ pc = "Forwarded"
    /\ IF reply.kind = "Response"
       THEN /\ response' = [status |-> 200, error |-> "",
                            data |-> response_data(reply.text),
                            upstream_status |-> reply.status_code,
                            url |-> data.url]
            /\ responses' = responses + 1
            /\ pc' = "Responded"
            /\ visited' = Append(visited, "Responded")
       ELSE Return(forward_failure_status(reply.kind), "Request failed: " \o reply.kind)
    /\ UNCHANGED <<elsewhere, env, data, headers, outbound, reply, wire>>

\* The request is over; the next one starts from nothing but the environment
Finish ==
    /\ pc = "Responded"
    /\ pc' = "Idle"
    /\ data' = NoRequest
    /\ headers' = Null
    /\ outbound' = <<>>
    /\ reply' = NoReply
    /\ response' = NoResponse
    /\ responses' = 0
    /\ visited' = <<>>
    /\ wire' = <<>>
    /\ UNCHANGED <<elsewhere, env>>

Next ==
    \/ \E d \in Requests : Receive(d)
    \/ ValidateURL
    \/ ValidateSize
    \/ ValidateHeaders
    \/ InjectCredentials
    \/ \E r \in Replies : Forward(r)
    \/ Respond
    \/ Finish

Spec == Init /\ [][Next]_vars

(***************************************************************************)
(* GET /proxy-docs?url=... (proxy_docs).  The handler's locals are kept in *)
(* the same variables as proxy_api's: data holds request.args.             *)
(***************************************************************************)
DocsReplies ==
    {[kind |-> "Response", status_code |-> c, text |-> "<html>", via |-> <<>>] :
        c \in {200, 204, 299, 300, 404, 500}}
      \cup
    {[kind |-> "Response", status_code |-> 200, text |-> "ami-id",
      via |-> <<"http://169.254.169.254/latest/meta-data/">>],
     [kind |-> "ConnectionError", status_code |-> 0, text |-> "", via |-> <<>>],
     [kind |-> "Timeout", status_code |-> 0, text |-> "", via |-> <<>>]}

\* url = request.args.get('url') and the three tests on it
DocsReceive(url) ==
    /\ pc = "Idle"
    /\ data' = [url |-> url, method |-> "GET", headers |-> Null, body |-> NoBody]
    /\ IF url = "" THEN Return(400, "URL parameter is required")
       ELSE IF ~(StartsWith(url, "http://") \/ StartsWith(url, "https://"))
       THEN Return(400, "Invalid URL protocol")
       ELSE IF ~is_safe_url(url) THEN Return(403, "URL blocked for security reasons")
       ELSE Goto("DocsChecked")
    /\ UNCHANGED <<elsewhere, env, headers, outbound, reply, wire>>

\* response = requests.get(url, timeout=30, allow_redirects=True)
DocsFetch(r) ==
    /\ pc = "DocsChecked"
    /\ outbound' = outbound \o
                      requests_request(
                          [method |-> "GET", url |-> data.url, headers |-> Null,
                           payload |-> "none", timeout |-> timeout])
    /\ reply' = r
    /\ wire' = <<data.url>> \o r.via
    /\ Goto("DocsFetched")
    /\ UNCHANGED <<elsewhere, env, data, headers>>

docs_ok_only_200(status_code) == status_code = 200

\* 'ok': response.status_code >= 200 and response.status_code < 300
docs_ok(status_code) == status_code >= 200 /\ status_code < 300

\* except requests.exceptions.Timeout: 504; RequestException: 500
docs_failure_status(kind) == IF kind = "Timeout" THEN 504 ELSE 500

\* The jsonify of status, content and ok, or of the exception
DocsRespond ==
    /\ pc = "DocsFetched"
    /\ IF reply.kind = "Response"
       THEN /\ response' = [status |-> 200, error |-> "", content |-> reply.text,
                            upstream_status |-> reply.status_code, url |-> data.url,
                            ok |-> docs_ok(reply.status_code)]
            /\ responses' = responses + 1
            /\ pc' = "Responded"
            /\ visited' = Append(visited, "Responded")
       ELSE Return(docs_failure_status(reply.kind), "Failed to fetch documentation")
    /\ UNCHANGED <<elsewhere, env, data, headers, outbound, reply, wire>>

NextDocs ==
    \/ \E url \in Urls : DocsReceive(url)
    \/ \E r \in DocsReplies : DocsFetch(r)
    \/ DocsRespond
    \/ Finish

Docs == Init /\ [][NextDocs]_vars

(***************************************************************************)
(* Two requests in two threads of the server.  Each call of proxy_api has  *)
(* its own locals; a switch of threads parks the locals of the running one *)
(* and resumes the other's.  The environment is the one thing both read.   *)
(***************************************************************************)
ConcurrentRequests ==
    {d \in Requests :
        /\ d.url \in {"https://httpbin.org/get", "https://api.anthropic.com/v1/messages",
                      "http://169.254.169.254/latest/meta-data/"}
        /\ d.method = "post"
        /\ d.headers \in {Dict(<<>>), Dict(<< <<"X-Foo\r\nX-Bar", Str("v")>> >>),
                          Dict(<< <<"x-api-key", Str("sk-short")>> >>)}
        /\ d.body = Body("str", 9, 9, TRUE)}

ConcurrentReplies == {r \in Replies : r.via = <<>> /\ r.status_code \in {0, 200}}

Resume_shared(mine, theirs) == theirs

\* The headers object a resumed request works on: its own, which
\* data.get('headers', {}) took from its own JSON
Resume(mine, theirs) == mine

\* The operating system switches threads between two steps
Switch ==
    /\ other' = [pc |-> pc, data |-> data, headers |-> headers, outbound |-> outbound,
                 reply |-> reply, response |-> response, responses |-> responses,
                 visited |-> visited, wire |-> wire]
    /\ pc' = other.pc
    /\ data' = other.data
    /\ headers' = Resume(other.headers, headers)
    /\ outbound' = other.outbound
    /\ reply' = other.reply
    /\ response' = other.response
    /\ responses' = other.responses
    /\ visited' = other.visited
    /\ wire' = other.wire
    /\ UNCHANGED <<env, call, verdict, limiterVars>>

NextConcurrent ==
    \/ \E d \in ConcurrentRequests : Receive(d)
    \/ ValidateURL
    \/ ValidateSize
    \/ ValidateHeaders
    \/ InjectCredentials
    \/ \E r \in ConcurrentReplies : Forward(r)
    \/ Respond
    \/ Finish
    \/ Switch

InitConcurrent ==
    /\ Init
    /\ env.FLASK_ENV = "production"
    /\ env.FLASK_DEBUG = "0"

Concurrent == InitConcurrent /\ [][NextConcurrent]_vars

(***************************************************************************)
(* check_rate_limit called from the threads of the server.  The function   *)
(* takes no lock, so a thread can be switched out between any two of its   *)
(* reads and writes of RATE_LIMITS; rl['count'] += 1 is a read and a write.*)
(***************************************************************************)
\* API_KEY_RATE_LIMIT and API_KEY_RATE_WINDOW of the environment (100 and 60
\* when the environment sets neither), here a small limit and a short window
RATE_LIMIT == 2
RATE_WINDOW == 2

MaxClock == 3
MaxCalls == 2

\* The entry of the table with one field set
SetField(k, field, value) ==
    [RATE_LIMITS EXCEPT ![k] = [RATE_LIMITS[k] EXCEPT ![field] = value]]

\* now = int(_time.time()); rl = RATE_LIMITS[api_key]
Enter(t, k) ==
    /\ calls[t].pc = "out"
    /\ calls[t].made < MaxCalls
    /\ calls' = [calls EXCEPT ![t] = [@ EXCEPT !.pc = "check", !.api_key = k, !.now = clock]]
    /\ UNCHANGED <<env, frame, other, call, verdict, RATE_LIMITS, clock, granted>>

\* if now > rl['reset']:
CheckWindow(t) ==
    /\ calls[t].pc = "check"
    /\ calls' = [calls EXCEPT ![t].pc =
                    IF calls[t].now > RATE_LIMITS[calls[t].api_key].reset
                    THEN "zero" ELSE "load"]
    /\ UNCHANGED <<env, frame, other, call, verdict, RATE_LIMITS, clock, granted>>

\* rl['count'] = 0: a new window of the key starts
ZeroCount(t) ==
    /\ calls[t].pc = "zero"
    /\ RATE_LIMITS' = SetField(calls[t].api_key, "count", 0)
    /\ granted' = [granted EXCEPT ![calls[t].api_key] = 0]
    /\ calls' = [calls EXCEPT ![t].pc = "reset"]
    /\ UNCHANGED <<env, frame, other, call, verdict, clock>>

\* rl['reset'] = now + RATE_WINDOW
SetReset(t) ==
    /\ calls[t].pc = "reset"
    /\ RATE_LIMITS' = SetField(calls[t].api_key, "reset", calls[t].now + RATE_WINDOW)
    /\ calls' = [calls EXCEPT ![t].pc = "load"]
    /\ UNCHANGED <<env, frame, other, call, verdict, clock, granted>>

\* rl['count'] += 1, the read
LoadCount(t) ==
    /\ calls[t].pc = "load"
    /\ calls' = [calls EXCEPT ![t] =
                    [@ EXCEPT !.pc = "store", !.count = RATE_LIMITS[calls[t].api_key].count]]
    /\ UNCHANGED <<env, frame, other, call, verdict, RATE_LIMITS, clock, granted>>

\* rl['count'] += 1, the write
StoreCount(t) ==
    /\ calls[t].pc = "store"
    /\ RATE_LIMITS' = SetField(calls[t].api_key, "count", calls[t].count + 1)
    /\ calls' = [calls EXCEPT ![t].pc = "compare"]
    /\ UNCHANGED <<env, frame, other, call, verdict, clock, granted>>

\* if rl['count'] > RATE_LIMIT: return False ... return True: the call is allowed
allowed(count) == ~(count > RATE_LIMIT)

\* The return of the call
Compare(t) ==
    /\ calls[t].pc = "compare"
    /\ granted' = [granted EXCEPT ![calls[t].api_key] =
                      IF allowed(RATE_LIMITS[calls[t].api_key].count) THEN @ + 1 ELSE @]
    /\ calls' = [calls EXCEPT ![t] =
                    [@ EXCEPT !.pc = "out", !.api_key = "", !.now = 0, !.count = 0,
                              !.made = @ + 1]]
    /\ UNCHANGED <<env, frame, other, call, verdict, RATE_LIMITS, clock>>

\* A second passes
Tick ==
    /\ clock < MaxClock
    /\ clock' = clock + 1
    /\ UNCHANGED <<env, frame, other, call, verdict, RATE_LIMITS, calls, granted>>

NextLimiter ==
    \/ \E t \in Threads, k \in Keys : Enter(t, k)
    \/ \E t \in Threads : CheckWindow(t)
    \/ \E t \in Threads : ZeroCount(t)
    \/ \E t \in Threads : SetReset(t)
    \/ \E t \in Threads : LoadCount(t)
    \/ \E t \in Threads : StoreCount(t)
    \/ \E t \in Threads : Compare(t)
    \/ Tick

InitLimiter ==
    /\ Init
    /\ env = [FLASK_ENV |-> "production", FLASK_DEBUG |-> "0", ANTHROPIC_API_KEY |-> ServerKey]

RateLimiter == InitLimiter /\ [][NextLimiter]_vars

(***************************************************************************)
(* The validators called directly (SSRFProtection.is_safe_url and          *)
(* SSRFProtection.validate_request_size are classmethods any caller may     *)
(* use, as /proxy-docs and the tests do).  A url is put together from its   *)
(* parts, an IPv4 host from its four octets; a body is a JSON value whose   *)
(* strings are sequences of code points.                                    *)
(***************************************************************************)
RECURSIVE IntToStr(_)
\* str(n) for n >= 0
IntToStr(n) ==
    IF n < 10 THEN CharAt("0123456789", n + 1)
    ELSE IntToStr(n \div 10) \o CharAt("0123456789", (n % 10) + 1)

NameHost(name) == [kind |-> "name", text |-> name, o |-> <<>>, hextet |-> ""]

IPv4Host(o) ==
    [kind |-> "ipv4",
     text |-> IntToStr(o[1]) \o "." \o IntToStr(o[2]) \o "." \o IntToStr(o[3])
              \o "." \o IntToStr(o[4]),
     o |-> o, hextet |-> ""]

IPv6Host(hextet, rest) ==
    [kind |-> "ipv6", text |-> hextet \o rest, o |-> <<>>, hextet |-> hextet]

ProbeNames ==
    {"", "api.github.com", "example.org", "api.weatherapi.com", "API.Example.COM",
     "localhost", "LocalHost", "my.localhost.example.com",
     "metadata.google.internal", "Metadata", "METADATA.azure.com",
     "meta-data.example.com", "instance-data",
     "10.example.com", "127.example.org", "192.168.example.net",
     "172.20.example.com", "0x7f.example.com", "2130706433.example.com"}

ProbeOctets ==
    {<<a, b>> \o t : a \in {0, 9, 10, 11, 126, 127, 128, 169, 172, 192},
                     b \in {0, 15, 16, 31, 32, 168, 254},
                     t \in {<<0, 0>>, <<0, 1>>, <<169, 254>>}}

ProbeHextets ==
    {"fc00", "fc01", "fcff", "fd00", "fdff", "fe80", "fe81", "febf", "fec0",
     "fbff", "2001", "FC00", "FE80"}

ProbeHosts ==
    {NameHost(n) : n \in ProbeNames}
        \cup {IPv4Host(o) : o \in ProbeOctets}
        \cup {IPv6Host(h, "::1") : h \in ProbeHextets}
        \cup {IPv6Host("", "::1")}

ProbeUrls ==
    [scheme : {"", "http://", "https://", "ftp://"},
     userinfo : {"", "user:pw@"},
     host : ProbeHosts,
     port : {"", ":8080"},
     path : {"", "/latest?x=1#top"}]

\* The url as text: scheme://userinfo@host:port/path, an IPv6 host in brackets
UrlText(u) ==
    u.scheme \o u.userinfo
        \o (IF u.host.kind = "ipv6" THEN "[" \o u.host.text \o "]" ELSE u.host.text)
        \o u.port \o u.path

\* len(chr(cp).encode('utf-8'))
utf8_width(cp) ==
    IF cp < 128 THEN 1 ELSE IF cp < 2048 THEN 2 ELSE IF cp < 65536 THEN 3 ELSE 4

\* What json.dumps (ensure_ascii) writes for one character of a string
json_escape_width(cp) ==
    IF cp \in {34, 92} THEN 2
    ELSE IF cp \in {8, 9, 10, 12, 13} THEN 2
    ELSE IF cp < 32 \/ cp = 127 THEN 6
    ELSE IF cp < 128 THEN 1
    ELSE IF cp < 65536 THEN 6 ELSE 12

\* The quote repr() puts around a string: ' unless the string has ' and no "
repr_quote(str) ==
    IF (\E i \in 1..Len(str) : str[i] = 39) /\ ~(\E i \in 1..Len(str) : str[i] = 34)
    THEN 34 ELSE 39

\* The UTF-8 bytes of what repr() writes for one character of a string, for
\* characters that are printable when they are not ASCII
repr_width(cp, quote) ==
    IF cp = 92 \/ cp = quote THEN 2
    ELSE IF cp \in {9, 10, 13} THEN 2
    ELSE IF cp < 32 \/ cp = 127 THEN 4
    ELSE utf8_width(cp)

RECURSIVE Sum(_, _)
\* sum(f[i] for i in 1..n)
Sum(f, n) == IF n = 0 THEN 0 ELSE f[n] + Sum(f, n - 1)

\* len(s.encode('utf-8'))
utf8_len(str) == Sum([i \in 1..Len(str) |-> utf8_width(str[i])], Len(str))

\* len(json.dumps(s)) for a string
json_str_len(str) == 2 + Sum([i \in 1..Len(str) |-> json_escape_width(str[i])], Len(str))

\* len(repr(s).encode('utf-8')) for a string
repr_len(str) ==
    2 + Sum([i \in 1..Len(str) |-> repr_width(str[i], repr_quote(str))], Len(str))

\* A JSON value by content: items holds the string itself for a str, the
\* elements for a list (of strings), key, value, key, value ... for a dict (of
\* strings to strings)
Value(t, items) == [t |-> t, items |-> items]

\* len(json.dumps(v).encode()): ", " between entries, ": " inside one
json_dumps_len(v) ==
    IF v.t = "str" THEN json_str_len(v.items[1])
    ELSE IF v.t = "list"
    THEN 2 + Sum([i \in 1..Len(v.items) |-> json_str_len(v.items[i])], Len(v.items))
           + (IF Len(v.items) > 1 THEN 2 * (Len(v.items) - 1) ELSE 0)
    ELSE 2 + Sum([i \in 1..Len(v.items) |-> json_str_len(v.items[i])], Len(v.items))
           + 2 * (Len(v.items) \div 2)
           + (IF Len(v.items) > 2 THEN 2 * ((Len(v.items) \div 2) - 1) ELSE 0)

\* len(str(v).encode('utf-8')) for a list of strings
str_len(v) ==
    2 + Sum([i \in 1..Len(v.items) |-> repr_len(v.items[i])], Len(v.items))
      + (IF Len(v.items) > 1 THEN 2 * (Len(v.items) - 1) ELSE 0)

\* The size validate_request_size computes, by the type of the body
measured_size(v) ==
    IF v.t = "str" THEN utf8_len(v.items[1])
    ELSE IF v.t = "dict" THEN json_dumps_len(v)
    ELSE str_len(v)

\* The body as validate_request_size sees it
Measured(v) ==
    IF v.t = "NoneType" THEN NoBody
    ELSE Body(v.t, measured_size(v),
              IF v.t = "str" THEN Len(v.items[1])
              ELSE IF v.t = "dict" THEN Len(v.items) \div 2 ELSE Len(v.items),
              FALSE)

MaxStrLen == 2
MaxLimit == 22

\* a, a double quote, e with an acute accent
CodePoints == {97, 34, 233}

ProbeStrings == UNION {[1..n -> CodePoints] : n \in 0..MaxStrLen}

ProbeValues ==
    {Value("NoneType", <<>>), Value("list", <<>>), Value("dict", <<>>)}
        \cup {Value("str", <<x>>) : x \in ProbeStrings}
        \cup {Value("list", <<x>>) : x \in ProbeStrings}
        \cup {Value("dict", <<(<<107>>), x>>) : x \in ProbeStrings}

\* Bodies around the sizes 10,000,000 and 10 * 1024 * 1024
LargeBodies ==
    {NoBody}
        \cup {Body("str", n, n, FALSE) :
                n \in {10 * 1000 * 1000 - 1, 10 * 1000 * 1000, 10 * 1000 * 1000 + 1,
                       max_size - 1, max_size, max_size + 1}}

RECURSIVE Repeat(_, _)
\* s * n
Repeat(str, n) ==
    IF n = 0 THEN ""
    ELSE IF n % 2 = 1 THEN str \o Repeat(str \o str, n \div 2)
    ELSE Repeat(str \o str, n \div 2)

\* A text of the given length that ends with brk
Text(len, brk) == Repeat("a", len - Len(brk)) \o brk

LineBreaks == {"", "\r", "\n"}

\* One header by its parts: the length of the name and the line break in it,
\* the type of the value and, for a string, its length and the line break in it
ProbeEntries ==
    {[klen |-> kl, kbrk |-> kb, vt |-> "str", vlen |-> vl, vbrk |-> vb] :
        kl \in {2, MaxHeaderName, MaxHeaderName + 1}, kb \in LineBreaks,
        vl \in {1, MaxHeaderValue, MaxHeaderValue + 1}, vb \in LineBreaks}
      \cup
    {[klen |-> 2, kbrk |-> "", vt |-> "str", vlen |-> 0, vbrk |-> ""]}
      \cup
    {[klen |-> kl, kbrk |-> kb, vt |-> vt, vlen |-> 0, vbrk |-> ""] :
        kl \in {2, MaxHeaderName + 1}, kb \in {"", "\n"},
        vt \in {"int", "NoneType", "list", "dict"}}

GoodEntry == [klen |-> 2, kbrk |-> "", vt |-> "str", vlen |-> 1, vbrk |-> ""]

\* The headers argument by its parts: the type of the value and, for a
\* mapping, its entries
ProbeHeaders ==
    {[t |-> "dict", entries |-> <<>>]}
      \cup {[t |-> "dict", entries |-> <<x>>] : x \in ProbeEntries}
      \cup {[t |-> "dict", entries |-> <<GoodEntry, x>>] : x \in ProbeEntries}
      \cup {[t |-> t, entries |-> <<>>] : t \in {"str", "list", "int", "NoneType"}}

\* The value of a header as the JSON value of its type
EntryValue(x) ==
    IF x.vt = "str" THEN Str(Text(x.vlen, x.vbrk))
    ELSE IF x.vt = "int" THEN Num(5, "5")
    ELSE IF x.vt = "NoneType" THEN Null
    ELSE IF x.vt = "list" THEN List(2)
    ELSE Dict(<< <<"k", Str("v")>> >>)

\* The headers argument as a JSON value; the second name of a mapping starts
\* with another letter than the first
HeadersValue(h) ==
    IF h.t = "dict"
    THEN Dict([i \in 1..Len(h.entries) |->
                 <<(IF i = 1 THEN "" ELSE "b") \o
                       Text(h.entries[i].klen - (IF i = 1 THEN 0 ELSE 1), h.entries[i].kbrk),
                   EntryValue(h.entries[i])>>])
    ELSE IF h.t = "str" THEN Str("abc")
    ELSE IF h.t = "list" THEN List(0)
    ELSE IF h.t = "int" THEN Num(7, "7")
    ELSE Null

\* SSRFProtection.validate_headers(headers)
CheckHeaders(h) ==
    /\ call = NoCall
    /\ call' = [fn |-> "validate_headers", arg |-> h, limit |-> 0]
    /\ verdict' = validate_headers(HeadersValue(h))
    /\ UNCHANGED <<env, frame, other, limiterVars>>

\* SSRFProtection.is_safe_url(url)
Classify(u) ==
    /\ call = NoCall
    /\ call' = [fn |-> "is_safe_url", arg |-> u, limit |-> 0]
    /\ verdict' = is_safe_url(UrlText(u))
    /\ UNCHANGED <<env, frame, other, limiterVars>>

\* SSRFProtection.validate_request_size(body, max_size)
CheckSize(v, limit) ==
    /\ call = NoCall
    /\ call' = [fn |-> "validate_request_size", arg |-> v, limit |-> limit]
    /\ verdict' = validate_request_size(Measured(v), limit)
    /\ UNCHANGED <<env, frame, other, limiterVars>>

\* SSRFProtection.validate_request_size(body), max_size left to its default
CheckSizeDefault(b) ==
    /\ call = NoCall
    /\ call' = [fn |-> "validate_request_size(default)", arg |-> b, limit |-> max_size]
    /\ verdict' = validate_request_size(b, max_size)
    /\ UNCHANGED <<env, frame, other, limiterVars>>

\* The caller has the verdict and is free to make the next call
Returned ==
    /\ call # NoCall
    /\ call' = NoCall
    /\ verdict' = FALSE
    /\ UNCHANGED <<env, frame, other, limiterVars>>

NextCall ==
    \/ \E u \in ProbeUrls : Classify(u)
    \/ \E v \in ProbeValues, limit \in 0..MaxLimit : CheckSize(v, limit)
    \/ \E b \in LargeBodies : CheckSizeDefault(b)
    \/ \E h \in ProbeHeaders : CheckHeaders(h)
    \/ Returned

\* No request is being handled and the environment is the production one
InitValidators ==
    /\ Init
    /\ env = [FLASK_ENV |-> "production", FLASK_DEBUG |-> "0", ANTHROPIC_API_KEY |-> ServerKey]

\* The validators on their own, called one at a time with any arguments
Validators == InitValidators /\ [][NextCall]_vars

(***************************************************************************)
(* Properties of /proxy-api                                                 *)
(***************************************************************************)
Stages ==
    <<"Received", "URLValidated", "SizeValidated", "HeadersValidated",
      "CredentialsInjected", "Forwarded", "Responded">>

StageRank(stage) == CHOOSE i \in 1..Len(Stages) : Stages[i] = stage

\* The caller's credential header as the handler locates it, Null when absent
CallerKey == GetHeader(data.headers.items, "x-api-key")

\* "Plausible" in the words of the specification
Plausible(v) ==
    /\ v.t = "str"
    /\ Len(v.s) >= 20
    /\ v.s \notin placeholders
    /\ (StartsWith(v.s, "sk-") \/ Len(v.s) > 50)

\* The three validators accepted the current request
Validated == Len(visited) >= 4 /\ visited[4] = "HeadersValidated"

\* The credential header of the forwarded call
ForwardedKey == GetHeader(outbound[1].headers.items, "x-api-key")

\* C1: a request with a non-empty url that is_safe_url classifies as unsafe is
\* answered 403, and no outbound call is ever made for it.
C1_UnsafeUrlAnswered403 ==
    (data.url # "" /\ ~is_safe_url(data.url)) =>
        /\ outbound = <<>>
        /\ (pc = "Responded" => response.status = 403)

\* C2: with a safe url, a body the size validator rejects is answered 413 and a
\* headers value the header validator rejects (a non-mapping included) is
\* answered 400, in both cases without an outbound call.
C2_RejectionStatuses ==
    (pc = "Responded" /\ is_safe_url(data.url)) =>
        /\ ~validate_request_size(data.body, max_size) =>
              (response.status = 413 /\ outbound = <<>>)
        /\ (validate_request_size(data.body, max_size) /\ ~validate_headers(data.headers)) =>
              (response.status = 400 /\ outbound = <<>>)

\* The validators that reject the current request, by their place in the order
Rejecting ==
    {k \in 1..3 :
        \/ k = 1 /\ ~is_safe_url(data.url)
        \/ k = 2 /\ ~validate_request_size(data.body, max_size)
        \/ k = 3 /\ ~validate_headers(data.headers)}

RejectionStatus == <<403, 413, 400>>

\* C3: the validators run in the order URL safety, body size, headers; when
\* more than one of them rejects a request, the response carries the status of
\* the first that does (unsafe URL and oversized body: 403; oversized body and
\* invalid headers: 413), and nothing after it runs: no later stage is entered,
\* the headers are left alone, no outbound call is made.
C3_FirstRejectionWins ==
    (pc = "Responded" /\ data.url # "" /\ Cardinality(Rejecting) >= 2) =>
        LET first == CHOOSE k \in Rejecting : \A j \in Rejecting : k <= j
        IN  /\ response.status = RejectionStatus[first]
            /\ visited = SubSeq(Stages, 1, first) \o <<"Responded">>
            /\ headers = data.headers
            /\ outbound = <<>>

\* C4: for the known upstream with the server key configured, a caller's
\* x-api-key that is absent or not plausible is forwarded as the server key,
\* and no x-api-key header of the forwarded call holds a placeholder.
C4_ImplausibleKeyReplaced ==
    (/\ outbound # <<>>
     /\ is_known_upstream(data.url)
     /\ env.ANTHROPIC_API_KEY # ""
     /\ ~Plausible(CallerKey)) =>
        /\ ForwardedKey = Str(env.ANTHROPIC_API_KEY)
        /\ \A i \in 1..Len(outbound[1].headers.items) :
              Lower(outbound[1].headers.items[i][1]) = "x-api-key" =>
                  outbound[1].headers.items[i][2].s \notin placeholders

C4_Witness ==
    /\ outbound # <<>>
    /\ is_known_upstream(data.url)
    /\ CallerKey = Str("YOUR_API_KEY")
    /\ ForwardedKey = Str(ServerKey)

\* C5: for the known upstream with the server key configured, a plausible
\* caller's x-api-key is forwarded unchanged, under the name the caller gave
\* it, and is not the server key.
C5_PlausibleKeyKept ==
    (/\ outbound # <<>>
     /\ is_known_upstream(data.url)
     /\ env.ANTHROPIC_API_KEY # ""
     /\ Plausible(CallerKey)) =>
        /\ ForwardedKey = CallerKey
        /\ ForwardedKey # Str(env.ANTHROPIC_API_KEY)
        /\ \A i \in 1..Len(data.headers.items) :
              outbound[1].headers.items[i] = data.headers.items[i]

C5_Witness ==
    /\ outbound # <<>>
    /\ is_known_upstream(data.url)
    /\ env.ANTHROPIC_API_KEY = ServerKey
    /\ CallerKey = Str(LongUserKey)
    /\ ForwardedKey = Str(LongUserKey)

\* C6: for the known upstream without a server key, a validated request whose
\* x-api-key is absent or not plausible ends with status 500 and no outbound
\* call.
C6_MissingKeyFails ==
    (/\ Validated
     /\ is_known_upstream(data.url)
     /\ env.ANTHROPIC_API_KEY = ""
     /\ ~Plausible(CallerKey)) =>
        /\ outbound = <<>>
        /\ pc \in {"HeadersValidated", "Responded"}
        /\ (pc = "Responded" => response.status = 500)

C6_Witness ==
    /\ pc = "Responded"
    /\ Validated
    /\ is_known_upstream(data.url)
    /\ env.ANTHROPIC_API_KEY = ""
    /\ FindHeader(data.headers.items, "x-api-key") = 0
    /\ response.status = 500
    /\ outbound = <<>>

\* C7: for the known upstream without a server key, a validated request with a
\* plausible caller's x-api-key is still forwarded, carrying that key
\* unchanged, and does not fail with the configuration error.
C7_OwnKeyNeedsNoServerKey ==
    (/\ pc = "Responded"
     /\ Validated
     /\ is_known_upstream(data.url)
     /\ env.ANTHROPIC_API_KEY = ""
     /\ Plausible(CallerKey)) =>
        /\ Len(outbound) = 1
        /\ ForwardedKey = CallerKey
        /\ response.error # MissingKeyError

\* The request failed because the server key it needed is missing
ConfigurationError ==
    /\ pc = "Responded"
    /\ visited = <<"Received", "URLValidated", "SizeValidated", "HeadersValidated", "Responded">>
    /\ is_known_upstream(data.url)
    /\ env.ANTHROPIC_API_KEY = ""
    /\ response.status = 500

\* C8: the message of a configuration error names neither the vendor nor the
\* variable (ANTHROPIC_API_KEY) whose secret is missing.
C8_GenericConfigurationError ==
    ConfigurationError =>
        ~Contains(Lower(response.error), "anthropic")

\* C9: a failed forward is answered 502 for a connection or DNS failure and 504
\* for a timeout.
C9_FailureClassStatus ==
    pc = "Responded" =>
        /\ reply.kind = "ConnectionError" => response.status = 502
        /\ reply.kind = "Timeout" => response.status = 504

\* A request gets at most one response, exactly one once it is answered, and
\* goes through the stages in their order without entering one twice
LinearRun ==
    /\ responses <= 1
    /\ pc = "Responded" => responses = 1
    /\ \A i, j \in 1..Len(visited) : i < j => StageRank(visited[i]) < StageRank(visited[j])

\* C10: a request gets exactly one response, goes through the stages in their
\* order without entering one twice, and a call the upstream never answers
\* ends in a gateway-timeout response.
C10_LinearRunEndsInOneResponse ==
    /\ LinearRun
    /\ (pc = "Responded" /\ reply.kind = "Timeout") => response.status = 504

\* A forward that failed: the call raised instead of returning a Response
ForwardFailed == reply.kind \in {"ConnectionError", "Timeout"}

\* C11: a request is forwarded at most once; when the call fails that one call
\* stays the only one and the request ends with an error response.
C11_NoRetry ==
    /\ Len(outbound) <= 1
    /\ ForwardFailed => Len(outbound) = 1
    /\ (pc = "Responded" /\ ForwardFailed) =>
          (response.status >= 400 /\ response.error # "")

C11_Witness ==
    /\ pc = "Responded"
    /\ reply.kind = "ConnectionError"
    /\ Len(outbound) = 1
    /\ response.status >= 400

\* C12: a call forwarded for a request whose method is GET or HEAD, in any
\* letter case, carries no body, whatever body the request supplied.
C12_NoBodyOnGetHead ==
    (outbound # <<>> /\ Lower(data.method) \in {"get", "head"}) =>
        \A i \in 1..Len(outbound) : outbound[i].payload = "none"

C12_Witness ==
    /\ outbound # <<>>
    /\ data.method = "Head"
    /\ data.body = Body("str", 9, 9, TRUE)
    /\ outbound[1].payload = "none"

\* How the specification has a supplied body travel: a structured value and a
\* string that parses as JSON as JSON, any other string as raw data
ExpectedPayload(body) ==
    IF body.t = "str" THEN (IF body.json THEN "json" ELSE "data") ELSE "json"

\* C13: a call forwarded for a request whose method is neither GET nor HEAD and
\* that supplied a body (any value but null, the empty object and the empty
\* string included) carries that body: as JSON when it is an object, an array
\* or a string that parses as JSON, as raw data when it is any other string.
C13_SuppliedBodyForwarded ==
    (/\ outbound # <<>>
     /\ Lower(data.method) \notin {"get", "head"}
     /\ data.body.t # "NoneType") =>
        outbound[1].payload = ExpectedPayload(data.body)

\* C14: the response to a forward the upstream answered carries, as data, the
\* upstream body parsed as JSON when it parses and its raw text when it does
\* not, as status the upstream's status code, and as url the request's url.
C14_ResultOfCompletedForward ==
    (pc = "Responded" /\ reply.kind = "Response") =>
        /\ json_parses(reply.text) => response.data = json_loads(reply.text)
        /\ ~json_parses(reply.text) => response.data = Str(reply.text)
        /\ response.upstream_status = reply.status_code
        /\ response.url = data.url
        /\ response.url = outbound[1].url

C14_Witness ==
    /\ pc = "Responded"
    /\ reply.text = "{}"
    /\ response.data = Dict(<<>>)
    /\ response.upstream_status = 200
    /\ response.url = "https://httpbin.org/get"

(***************************************************************************)
(* Properties of the validators                                             *)
(***************************************************************************)
\* The call in progress classifies a url
Classifying == call.fn = "is_safe_url"

\* The call in progress classifies a url that starts with http:// or https://
ClassifyingHttp == Classifying /\ call.arg.scheme \in {"http://", "https://"}

\* C15: is_safe_url returns unsafe for the empty url, for a url that does not
\* start with http:// or https://, and for a url that has no hostname.
C15_MalformedUrlUnsafe ==
    (/\ Classifying
     /\ \/ UrlText(call.arg) = ""
        \/ call.arg.scheme \notin {"http://", "https://"}
        \/ call.arg.host.text = "") =>
        ~verdict

C15_Witness ==
    /\ Classifying
    /\ UrlText(call.arg) = "http://user:pw@:8080/latest?x=1#top"
    /\ ~verdict

DenylistOfTheSpecification ==
    {"localhost", "127.0.0.1", "0.0.0.0", "::1", "169.254.169.254",
     "metadata.google.internal", "metadata", "metadata.azure.com"}

KeywordsOfTheSpecification == {"localhost", "metadata", "meta-data", "instance-data"}

\* An address of 10.0.0.0/8, 172.16.0.0/12, 192.168.0.0/16 or 127.0.0.0/8
PrivateIPv4(o) ==
    \/ o[1] = 10
    \/ o[1] = 172 /\ o[2] \in 16..31
    \/ o[1] = 192 /\ o[2] = 168
    \/ o[1] = 127

\* C16: is_safe_url returns unsafe for an http(s) url whose hostname, letter
\* case ignored, is on the denylist, contains one of the keywords, or is an
\* IPv4 address of a private or loopback range, whatever userinfo, port, path
\* and query the url has.
C16_InternalHostUnsafe ==
    (/\ ClassifyingHttp
     /\ \/ Lower(call.arg.host.text) \in DenylistOfTheSpecification
        \/ \E k \in KeywordsOfTheSpecification : Contains(Lower(call.arg.host.text), k)
        \/ call.arg.host.kind = "ipv4" /\ PrivateIPv4(call.arg.host.o)) =>
        ~verdict

C16_Witness ==
    /\ Classifying
    /\ UrlText(call.arg) = "https://user:pw@172.31.0.1:8080/latest?x=1#top"
    /\ ~verdict

RECURSIVE HexValue(_)
\* The number a string of hexadecimal digits writes
HexValue(h) ==
    IF h = "" THEN 0
    ELSE 16 * HexValue(SubSeq(h, 1, Len(h) - 1))
         + (CHOOSE d \in 0..15 :
                CharAt("0123456789abcdef", d + 1) = Lower(CharAt(h, Len(h))))

\* C17: is_safe_url returns unsafe for an http(s) url whose hostname is an IPv6
\* address with first hextet fc00 through fdff (unique local, fc00::/7) or
\* fe80 through febf (link local, fe80::/10).
C17_PrivateIPv6Unsafe ==
    (/\ ClassifyingHttp
     /\ call.arg.host.kind = "ipv6"
     /\ call.arg.host.hextet # ""
     /\ \/ HexValue(call.arg.host.hextet) \in HexValue("fc00")..HexValue("fdff")
        \/ HexValue(call.arg.host.hextet) \in HexValue("fe80")..HexValue("febf")) =>
        ~verdict

\* A DNS name that is not an IP literal: letters, digits, hyphens and dots,
\* with a last label (the top-level domain) of letters only
IsDnsName(name) ==
    LET dot == LastIndexOf(name, ".")
        tld == SubSeq(name, dot + 1, Len(name))
    IN  /\ dot > 1
        /\ tld # ""
        /\ \A i \in 1..Len(tld) : Contains(LowerChars, LowerChar(CharAt(tld, i)))
        /\ \A i \in 1..Len(name) :
              \/ Contains(LowerChars, LowerChar(CharAt(name, i)))
              \/ CharAt(name, i) \in Digits \cup {"-", "."}

\* C18: is_safe_url returns safe for an http(s) url whose hostname is a public
\* DNS name that is not on the denylist and contains none of the keywords; the
\* private-address and obfuscated-loopback rules reject IP literals only.
C18_PublicNameSafe ==
    (/\ ClassifyingHttp
     /\ call.arg.host.kind = "name"
     /\ IsDnsName(call.arg.host.text)
     /\ Lower(call.arg.host.text) \notin DenylistOfTheSpecification
     /\ \A k \in KeywordsOfTheSpecification : ~Contains(Lower(call.arg.host.text), k)) =>
        verdict

\* The UTF-8 byte length of a body, after JSON serialization when it is an
\* object or an array
SerializedSize(v) ==
    IF v.t = "str" THEN utf8_len(v.items[1]) ELSE json_dumps_len(v)

\* C19: for every limit, validate_request_size returns safe for a body whose
\* UTF-8 byte length, after JSON serialization for an object or an array, is
\* exactly the limit, unsafe for one a byte longer, and safe for null.
C19_SizeBoundary ==
    call.fn = "validate_request_size" =>
        IF call.arg.t = "NoneType" THEN verdict
        ELSE /\ SerializedSize(call.arg) = call.limit => verdict
             /\ SerializedSize(call.arg) = call.limit + 1 => ~verdict

\* C20, amended: with no limit passed, the size validator's maximum is
\* 10 * 1024 * 1024 = 10,485,760 bytes: a body of exactly that size is accepted,
\* a body one byte longer is rejected, null is accepted.
C20_DefaultLimitBinary ==
    call.fn = "validate_request_size(default)" =>
        IF call.arg.t = "NoneType" THEN verdict
        ELSE verdict <=> call.arg.size <= 10485760

C20_Witness ==
    /\ call.fn = "validate_request_size(default)"
    /\ call.arg.size = 10485761
    /\ ~verdict

\* C20 as the specification has it: with no limit passed the maximum is
\* 10,000,000 bytes, so a body of 10,000,000 bytes is accepted and one of
\* 10,000,001 bytes is rejected.
C20_DefaultLimitDecimal ==
    call.fn = "validate_request_size(default)" =>
        /\ call.arg.size = 10000000 => verdict
        /\ call.arg.size = 10000001 => ~verdict

\* The call in progress validates a headers value that is a mapping
CheckingMapping == call.fn = "validate_headers" /\ call.arg.t = "dict"

\* The entry has a line break in its name or in its string value, a name
\* longer than 1000 characters or a string value longer than 10000
BadEntry(x) ==
    \/ x.kbrk # ""
    \/ x.klen > 1000
    \/ x.vt = "str" /\ (x.vbrk # "" \/ x.vlen > 10000)

\* C21: validate_headers returns unsafe for a mapping in which a key or a
\* value contains a carriage return or a line feed, a key is longer than 1000
\* characters or a value longer than 10000; it returns safe for a mapping of
\* strings to strings with none of these, keys of exactly 1000 and values of
\* exactly 10000 characters included.
C21_HeaderInjectionAndLength ==
    CheckingMapping =>
        /\ (\E i \in 1..Len(call.arg.entries) : BadEntry(call.arg.entries[i])) => ~verdict
        /\ (\A i \in 1..Len(call.arg.entries) :
                call.arg.entries[i].vt = "str" /\ ~BadEntry(call.arg.entries[i])) => verdict

C21_Witness ==
    /\ CheckingMapping
    /\ call.arg.entries =
          <<[klen |-> 1000, kbrk |-> "", vt |-> "str", vlen |-> 10000, vbrk |-> ""]>>
    /\ verdict

\* C22: validate_headers returns unsafe when the headers value is not a
\* mapping of strings to strings: when it is not a mapping, and when it is a
\* mapping with a value that is not a string (a number, null, a list, an
\* object).
C22_NonStringHeadersUnsafe ==
    call.fn = "validate_headers" =>
        /\ call.arg.t # "dict" => ~verdict
        /\ (\E i \in 1..Len(call.arg.entries) : call.arg.entries[i].vt # "str") => ~verdict

(***************************************************************************)
(* Properties of the credential injection and of the SSRF gate of          *)
(* /proxy-api                                                               *)
(***************************************************************************)
\* The headers of a mapping whose name is the given one, letter case ignored
Named(items, name) == {i \in 1..Len(items) : Lower(items[i][1]) = name}

\* C25: the headers forwarded to the known upstream hold one anthropic-version
\* header: the caller's, name and value unchanged, when the caller gave one
\* under any letter case, and anthropic-version: 2023-06-01 otherwise.
C25_VersionHeaderPresent ==
    (outbound # <<>> /\ is_known_upstream(data.url)) =>
        LET sent == outbound[1].headers.items
            mine == Named(data.headers.items, "anthropic-version")
        IN  /\ Cardinality(Named(sent, "anthropic-version")) = 1
            /\ \A i \in mine : sent[i] = data.headers.items[i]
            /\ mine = {} =>
                  \E i \in 1..Len(sent) : sent[i] = <<"anthropic-version", Str("2023-06-01")>>

C25_Witness ==
    /\ outbound # <<>>
    /\ is_known_upstream(data.url)
    /\ \E i \in 1..Len(outbound[1].headers.items) :
          outbound[1].headers.items[i] = <<"Anthropic-Version", Str("2023-01-01")>>

\* C26: when the caller's headers hold one header named x-api-key, letter case
\* ignored, the headers forwarded to the known upstream hold exactly one, under
\* the caller's name for it; when they hold none, exactly one, named x-api-key.
C26_OneCredentialHeader ==
    (outbound # <<>> /\ is_known_upstream(data.url)) =>
        LET sent == outbound[1].headers.items
            mine == Named(data.headers.items, "x-api-key")
        IN  /\ Cardinality(mine) <= 1 => Cardinality(Named(sent, "x-api-key")) = 1
            /\ \A i \in mine : sent[i][1] = data.headers.items[i][1]
            /\ mine = {} => \E i \in 1..Len(sent) : sent[i][1] = "x-api-key"

C26_Witness ==
    /\ outbound # <<>>
    /\ is_known_upstream(data.url)
    /\ \E i \in 1..Len(outbound[1].headers.items) :
          outbound[1].headers.items[i] = <<"X-API-KEY", Str(ServerKey)>>

\* C28: the server's secret is in the headers of a forwarded call only when the
\* host of the target url is api.anthropic.com.
C28_SecretOnlyToKnownHost ==
    \A n \in 1..Len(outbound) :
        (\E i \in 1..Len(outbound[n].headers.items) :
            /\ env.ANTHROPIC_API_KEY # ""
            /\ outbound[n].headers.items[i][2] = Str(env.ANTHROPIC_API_KEY)) =>
                Hostname(outbound[n].url) = "api.anthropic.com"

\* C29: no url asked for on behalf of a request, those of followed redirects
\* included, is one that is_safe_url classifies as unsafe.
C29_NoUnsafeUrlOnTheWire ==
    \A i \in 1..Len(wire) : is_safe_url(wire[i])

\* C30: in development mode an unsafe url whose hostname is not localhost,
\* 127.0.0.1 or 0.0.0.0 is answered 403 with no outbound call, and outside
\* development mode so is every unsafe url (for requests whose headers are a
\* mapping or absent).
C30_DevelopmentExceptionIsLocalOnly ==
    (/\ data.url # ""
     /\ ~HeadersPrintRaises(data.headers)
     /\ ~is_safe_url(data.url)
     /\ \/ ~is_dev_mode(env)
        \/ UrlparseRaises(data.url)
        \/ Hostname(data.url) \notin {"localhost", "127.0.0.1", "0.0.0.0"}) =>
        /\ outbound = <<>>
        /\ pc = "Responded" => response.status = 403

C23_DocsGate ==
    /\ Len(outbound) <= 1
    /\ (data.url # "" /\ ~is_safe_url(data.url)) =>
          /\ outbound = <<>>
          /\ pc \in {"Idle", "Responded"}
          /\ pc = "Responded" => response.status \in 400..499
    /\ (pc = "Responded" /\ is_safe_url(data.url)) =>
          /\ Len(outbound) = 1
          /\ outbound[1].url = data.url
          /\ reply.kind = "Response" =>
                (response.ok <=> reply.status_code \in 200..299)

C23_Witness ==
    /\ pc = "Responded"
    /\ data.url = "https://httpbin.org/get"
    /\ reply.status_code = 299
    /\ response.ok

\* C27: for each key, of the calls of check_rate_limit made in one window
\* (since the counter of the key was last reset) at most RATE_LIMIT return
\* allowed, however the calls of concurrent threads interleave; and the calls
\* for one key leave the counter and the reset time of every other key alone.
C27_AtMostLimitPerWindow ==
    \A k \in Keys : granted[k] <= RATE_LIMIT
=============================================================================
